---- MODULE Spec2Model ----
(***************************************************************************)
(* The credential and OTP-verification state machine of the club           *)
(* management backend: the auth routes (signup, verify-otp, resend-otp,    *)
(* login, forgot-password, reset-password), the delete-account route, the  *)
(* Club collection with its unique indexes, and the OTP collection.        *)
(*                                                                         *)
(* Every handler is an async function; it is modelled as one step per      *)
(* continuation between two awaits.  Under Spec one request is served at   *)
(* a time (only worker 1 takes requests); SpecClock adds the clock and the *)
(* expiry of OTP documents to it.  Under SpecConc and SpecOneCode two      *)
(* workers interleave at the awaits.                                       *)
(***************************************************************************)
EXTENDS Integers, FiniteSets, Sequences, Bags, TLC

\* Bounds of the model.
MaxIds == 2        \* clubs ever inserted
MaxOtps == 2       \* OTP documents in the collection at once

\* Lifetime of an OTP document in clock ticks; a tick is any span longer
\* than the 10 minutes a code is good for.
OtpTtl == 1

\* The request fields the workers draw from.
Emails == {"a@x.com", "b@x.com"}
Names == {"Chess", "Drama"}
SignupPasswords == {"secret1"}
Passwords == {"secret1", "secret2"}
Codes == {"111111", "222222"}
Procs == {1, 2}

\* The fields drawn from when two requests are in flight at once.
ConcEmails == {"a@x.com"}
ConcNames == {"Chess"}
ConcPasswords == {"secret1"}
ConcCodes == {"111111", "222222"}
OneCode == {"111111"}

VARIABLES
    clubs,       \* the Club collection: a set of documents
    otps,        \* the OTP collection: a bag of documents [email, otp, age],
                 \* each with the _id of the club it was issued for and the
                 \* route that issued it
    nextId,      \* the next fresh _id
    tokens,      \* club ids for which a session token has been signed
    pc,          \* per worker: the continuation its request is at
    req,         \* per worker: the request being (or last) served
    existing,    \* per worker: the document held in existingClub
    club,        \* per worker: the document held in club
    resp,        \* per worker: the response of the last finished request
    mail,        \* per worker: how sendOTPEmail ended for the request
    verifiedBy,  \* history: <<id, email>> of clubs verify-otp answered 200 for
    consumed,    \* history: the <<email, otp, how>> consumed last, unless
                 \* an OTP was issued for the email since
    sameRecord   \* history: both workers looked up the same single OTP

vars == <<clubs, otps, nextId, tokens, pc, req, existing, club, resp, mail,
          verifiedBy, consumed, sameRecord>>

----------------------------------------------------------------------------
\* Values

NoClub == [id |-> 0, name |-> "", email |-> "", password |-> <<>>,
           verified |-> FALSE]

NoReq == [op |-> "none", email |-> "", name |-> "", password |-> "",
          otp |-> "", clubId |-> 0]

\* bcrypt.hash in the pre('save') hook; the salt is left out, so a hash is
\* determined by its plaintext.
Hash(p) == <<"bcrypt", p>>

comparePassword(candidatePassword, password) ==
    password = Hash(candidatePassword)

\* HTTP status of a response.
Status(r) ==
    CASE r = "Created" -> 201
      [] r \in {"Verified", "Resent", "LoggedIn", "ResetSent",
                "PasswordReset", "Deleted"} -> 200
      [] r \in {"ValidationError", "DuplicateActive", "InvalidOrExpired"}
           -> 400
      [] r = "InvalidCredentials" -> 401
      [] r = "NotVerified" -> 403
      [] r \in {"ClubNotFound", "NoUnverified", "NoVerified"} -> 404
      [] r \in {"ServerError", "DeliveryError"} -> 500
      [] OTHER -> 0

----------------------------------------------------------------------------
\* The Club collection

\* NewClub, had signup created the club with verified: true.
NewClubVerified(id, name, email, password) ==
    [id |-> id, name |-> name, email |-> email, password |-> Hash(password),
     verified |-> TRUE]

\* new Club({name, description, email, password, verified: false}), with the
\* password hashed by the pre('save') hook.
NewClub(id, name, email, password) ==
    [id |-> id, name |-> name, email |-> email, password |-> Hash(password),
     verified |-> FALSE]

\* DuplicateKey, had the schema declared no unique index.
DuplicateKeyNoIndex(c) == FALSE

\* The unique indexes on name and email reject an insert (E11000).
DuplicateKey(c) ==
    \E d \in clubs: d.email = c.email \/ d.name = c.name

\* Club.findOne(filter): the documents it may return.
ClubsByEmailOrName(e, n) == {c \in clubs: c.email = e \/ c.name = n}
ClubsByEmail(e) == {c \in clubs: c.email = e}

\* ClubsByEmailVerified, had the filter left out the verified field.
ClubsByEmailAnyState(e, v) == {c \in clubs: c.email = e}

ClubsByEmailVerified(e, v) == {c \in clubs: c.email = e /\ c.verified = v}
ClubsById(i) == {c \in clubs: c.id = i}

\* Club.findByIdAndDelete(id)
WithoutId(i) == {c \in clubs: c.id # i}

----------------------------------------------------------------------------
\* The OTP collection

\* A document as OTP.create writes it; issuedFor and issuedBy are history,
\* not fields of the schema: the _id of the club that held the email at that
\* moment, and the route that issued the code.
OtpDoc(e, o, i, by) ==
    [email |-> e, otp |-> o, age |-> 0, issuedFor |-> i, issuedBy |-> by]

\* OTP.findOne({email, otp}): the documents it may return.
OtpMatches(e, o) == {r \in BagToSet(otps): r.email = e /\ r.otp = o}

OtpCount(e) ==
    BagCardinality([r \in {x \in BagToSet(otps): x.email = e} |-> otps[r]])

OtpCountCode(e, o) ==
    BagCardinality([r \in OtpMatches(e, o) |-> otps[r]])

\* OTP.create({email, otp})
OtpCreate(e, o, i, by) == otps (+) SetToBag({OtpDoc(e, o, i, by)})

\* OTP.deleteMany({email})
OtpDeleteMany(e) ==
    [r \in {x \in BagToSet(otps): x.email # e} |-> otps[r]]

\* A document is past its lifetime.
Expired(r) == r.age >= OtpTtl

\* The collection one clock tick later (ages saturate at the lifetime).
Aged ==
    LET cap == OtpTtl
        older(r) == [r EXCEPT !.age = IF r.age < cap THEN r.age + 1 ELSE cap]
        younger(t) == [t EXCEPT !.age = t.age - 1]
        targets == {older(r) : r \in BagToSet(otps)}
        count(t) == (IF t.age >= 1 THEN CopiesIn(younger(t), otps) ELSE 0)
                    + (IF t.age = cap THEN CopiesIn(t, otps) ELSE 0)
    IN  [t \in targets |-> count(t)]

----------------------------------------------------------------------------
\* The email service

\* sendOTPEmail(email, otp): it returns {success: true}, or throws when the
\* post to the mail API fails.
sendOTPEmail == {"sent", "Failed to send email"}

\* MailAnswer, had the handler answered as on success whatever the dispatch
\* did.
MailAnswerIgnoresFailure(result, ok) == ok

\* The handler answers ok once sendOTPEmail returns; its throw lands in the
\* catch, which answers 500.
MailAnswer(result, ok) ==
    IF result = "sent" THEN ok ELSE "DeliveryError"

----------------------------------------------------------------------------
\* Worker bookkeeping

\* What stays of a request once it is answered.
Finished(r) == [NoReq EXCEPT !.op = r.op, !.email = r.email]

\* res.status(..).json(..): the handler returns and its locals are dropped.
Answer(p, r) ==
    /\ pc' = [pc EXCEPT ![p] = "done"]
    /\ resp' = [resp EXCEPT ![p] = r]
    /\ req' = [req EXCEPT ![p] = Finished(req[p])]
    /\ existing' = [existing EXCEPT ![p] = NoClub]
    /\ club' = [club EXCEPT ![p] = NoClub]

\* The answer of a step that sends no email.
Respond(p, r) ==
    /\ Answer(p, r)
    /\ UNCHANGED mail

\* The handler is suspended at its next await, holding document c in club.
Goto(p, l, c) ==
    /\ pc' = [pc EXCEPT ![p] = l]
    /\ club' = [club EXCEPT ![p] = c]
    /\ UNCHANGED <<resp, req, existing, mail>>

\* Requests in flight that will still insert an OTP document.
PendingOtps ==
    Cardinality({q \in Procs: pc[q] \in {"su_find", "su_delete", "su_save",
                                         "su_otp", "rs_find", "rs_delMany",
                                         "rs_create", "fp_find",
                                         "fp_delMany", "fp_create"}})

\* Room for one more OTP document; a request that first deletes the
\* documents of its email (deleted, "" for none) does not count them.
OtpRoom(deleted) ==
    BagCardinality([r \in {x \in BagToSet(otps): x.email # deleted}
                      |-> otps[r]])
        + PendingOtps < MaxOtps

Init ==
    /\ clubs = {}
    /\ otps = EmptyBag
    /\ nextId = 1
    /\ tokens = {}
    /\ pc = [p \in Procs |-> "idle"]
    /\ req = [p \in Procs |-> NoReq]
    /\ existing = [p \in Procs |-> NoClub]
    /\ club = [p \in Procs |-> NoClub]
    /\ resp = [p \in Procs |-> "none"]
    /\ mail = [p \in Procs |-> "none"]
    /\ verifiedBy = {}
    /\ consumed = <<>>
    /\ sameRecord = FALSE

\* A request that passes validationResult(req) arrives at an idle worker.
Begin(p, r, first) ==
    /\ pc[p] = "idle"
    /\ sameRecord' = FALSE
    /\ pc' = [pc EXCEPT ![p] = first]
    /\ req' = [req EXCEPT ![p] = r]
    /\ UNCHANGED <<clubs, otps, nextId, tokens, existing, club, resp, mail,
                   verifiedBy, consumed>>

\* A request that fails validationResult(req) is answered 400 at once.
Invalid(p, op) ==
    /\ pc[p] = "idle"
    /\ sameRecord' = FALSE
    /\ pc' = [pc EXCEPT ![p] = "done"]
    /\ resp' = [resp EXCEPT ![p] = "ValidationError"]
    /\ req' = [req EXCEPT ![p] = [NoReq EXCEPT !.op = op]]
    /\ UNCHANGED <<clubs, otps, nextId, tokens, existing, club, mail,
                   verifiedBy, consumed>>

\* The client has the response; the worker is free for the next request.
Done(p) ==
    /\ pc[p] = "done"
    /\ sameRecord' = FALSE
    /\ pc' = [pc EXCEPT ![p] = "idle"]
    /\ resp' = [resp EXCEPT ![p] = "none"]
    /\ mail' = [mail EXCEPT ![p] = "none"]
    /\ req' = [req EXCEPT ![p] = NoReq]
    /\ UNCHANGED <<clubs, otps, nextId, tokens, existing, club, verifiedBy,
                   consumed>>

----------------------------------------------------------------------------
\* POST /signup

SignupBegin(p, e, n, w) ==
    /\ OtpRoom("")
    /\ Begin(p, [NoReq EXCEPT !.op = "signup", !.email = e, !.name = n,
                              !.password = w], "su_find")

\* Club.findOne({$or: [{email}, {name}]}) and the branch on existingClub
SignupFind(p) ==
    /\ pc[p] = "su_find"
    /\ LET found == ClubsByEmailOrName(req[p].email, req[p].name)
       IN  IF found = {}
           THEN Goto(p, "su_save", NoClub)
           ELSE \E c \in found:
                   IF c.verified
                   THEN Respond(p, "DuplicateActive")
                   ELSE /\ pc' = [pc EXCEPT ![p] = "su_delete"]
                        /\ existing' = [existing EXCEPT ![p] = c]
                        /\ UNCHANGED <<resp, req, club, mail>>
    /\ UNCHANGED <<clubs, otps, nextId, tokens, verifiedBy, consumed,
                   sameRecord>>

\* Club.findByIdAndDelete(existingClub._id)
SignupDelete(p) ==
    /\ pc[p] = "su_delete"
    /\ clubs' = WithoutId(existing[p].id)
    /\ Goto(p, "su_save", NoClub)
    /\ UNCHANGED <<otps, nextId, tokens, verifiedBy, consumed, sameRecord>>

\* new Club(..); club.save()
SignupSave(p) ==
    /\ pc[p] = "su_save"
    /\ LET c == NewClub(nextId, req[p].name, req[p].email, req[p].password)
       IN  IF DuplicateKey(c)
           THEN /\ Respond(p, "ServerError")
                /\ UNCHANGED <<clubs, nextId>>
           ELSE /\ nextId <= MaxIds
                /\ clubs' = clubs \cup {c}
                /\ nextId' = nextId + 1
                /\ Goto(p, "su_otp", c)
    /\ UNCHANGED <<otps, tokens, verifiedBy, consumed, sameRecord>>

\* generateOTP(), drawing from C; OTP.create({email, otp})
SignupOtp(p, C) ==
    /\ pc[p] = "su_otp"
    /\ \E o \in C:
          otps' = OtpCreate(req[p].email, o, club[p].id, req[p].op)
    /\ consumed' = IF consumed # <<>> /\ consumed[1] = req[p].email
                 THEN <<>> ELSE consumed
    /\ Goto(p, "su_mail", club[p])
    /\ UNCHANGED <<clubs, nextId, tokens, verifiedBy, sameRecord>>

\* sendOTPEmail(email, otp), which throws when the dispatch fails
SignupMail(p) ==
    /\ pc[p] = "su_mail"
    /\ \E result \in sendOTPEmail:
          /\ mail' = [mail EXCEPT ![p] = result]
          /\ Answer(p, MailAnswer(result, "Created"))
    /\ UNCHANGED <<clubs, otps, nextId, tokens, verifiedBy, consumed,
                   sameRecord>>

----------------------------------------------------------------------------
\* POST /verify-otp

VerifyBegin(p, e, o) ==
    Begin(p, [NoReq EXCEPT !.op = "verifyOtp", !.email = e, !.otp = o],
          "vo_findOtp")

\* The 404 answer that consumes the presented code.
ClubNotFoundConsumes(p) ==
    /\ Respond(p, "ClubNotFound")
    /\ otps' \in {otps (-) SetToBag({r}) :
                    r \in OtpMatches(req[p].email, req[p].otp)}

\* if (!club) return res.status(404).json(..): the handler returns before
\* any write, the OTP document it found stays in the collection.
ClubNotFound(p) ==
    /\ Respond(p, "ClubNotFound")
    /\ UNCHANGED otps

\* The other worker holds a lookup of the one document for this
\* (email, otp) and has not deleted it yet.
SharedLookup(p) ==
    \E q \in Procs \ {p}:
       /\ pc[q] \in {"vo_findClub", "vo_save", "vo_delOtp",
                     "rp_findClub", "rp_save", "rp_delOtp"}
       /\ req[q].email = req[p].email
       /\ req[q].otp = req[p].otp
       /\ OtpCountCode(req[p].email, req[p].otp) = 1

\* OTP.findOne({email, otp})
VerifyFindOtp(p) ==
    /\ pc[p] = "vo_findOtp"
    /\ IF OtpMatches(req[p].email, req[p].otp) = {}
       THEN Respond(p, "InvalidOrExpired") /\ UNCHANGED sameRecord
       ELSE Goto(p, "vo_findClub", NoClub) /\ sameRecord' = SharedLookup(p)
    /\ UNCHANGED <<clubs, otps, nextId, tokens, verifiedBy, consumed>>

\* Club.findOne({email})
VerifyFindClub(p) ==
    /\ pc[p] = "vo_findClub"
    /\ LET found == ClubsByEmail(req[p].email)
       IN  IF found = {}
           THEN ClubNotFound(p)
           ELSE /\ \E c \in found: Goto(p, "vo_save", c)
                /\ UNCHANGED otps
    /\ UNCHANGED <<clubs, nextId, tokens, verifiedBy, consumed, sameRecord>>

\* The document as verify-otp saves it: club.verified = true
MarkVerified(c) == [c EXCEPT !.verified = TRUE]

\* club.save() of a loaded document: the update is by _id and sets the
\* modified path only
SaveById(i, path, value) ==
    {IF c.id = i THEN [c EXCEPT ![path] = value] ELSE c : c \in clubs}

\* club.verified = true; club.save()  (it throws when the document is gone)
VerifySave(p) ==
    /\ pc[p] = "vo_save"
    /\ IF ClubsById(club[p].id) = {}
       THEN Respond(p, "ServerError") /\ UNCHANGED clubs
       ELSE /\ clubs' = SaveById(club[p].id, "verified", TRUE)
            /\ Goto(p, "vo_delOtp", MarkVerified(club[p]))
    /\ UNCHANGED <<otps, nextId, tokens, verifiedBy, consumed, sameRecord>>

\* OTP.deleteOne({email, otp}): the collections it may leave
OtpDeleteOne(e, o) ==
    IF OtpMatches(e, o) = {}
    THEN {otps}
    ELSE {otps (-) SetToBag({r}) : r \in OtpMatches(e, o)}

\* OTP.deleteOne({email, otp}); jwt.sign({clubId}); res.json(..)
VerifyDeleteOtp(p) ==
    /\ pc[p] = "vo_delOtp"
    /\ otps' \in OtpDeleteOne(req[p].email, req[p].otp)
    /\ tokens' = tokens \cup {club[p].id}
    /\ verifiedBy' = verifiedBy \cup {<<club[p].id, req[p].email>>}
    /\ consumed' = <<req[p].email, req[p].otp,
                     IF <<club[p].id, req[p].email>> \in verifiedBy
                     THEN "reverified" ELSE "verified">>
    /\ Respond(p, "Verified")
    /\ UNCHANGED <<clubs, nextId, sameRecord>>

----------------------------------------------------------------------------
\* POST /resend-otp

ResendBegin(p, e) ==
    /\ OtpRoom(e)
    /\ Begin(p, [NoReq EXCEPT !.op = "resendOtp", !.email = e], "rs_find")

\* Club.findOne({email, verified: false})
ResendFind(p) ==
    /\ pc[p] = "rs_find"
    /\ LET found == ClubsByEmailVerified(req[p].email, FALSE)
       IN  IF found = {}
           THEN Respond(p, "NoUnverified")
           ELSE \E c \in found: Goto(p, "rs_delMany", c)
    /\ UNCHANGED <<clubs, otps, nextId, tokens, verifiedBy, consumed,
                   sameRecord>>

\* OTP.deleteMany({email})
ResendDeleteMany(p) ==
    /\ pc[p] = "rs_delMany"
    /\ otps' = OtpDeleteMany(req[p].email)
    /\ Goto(p, "rs_create", club[p])
    /\ UNCHANGED <<clubs, nextId, tokens, verifiedBy, consumed, sameRecord>>

\* generateOTP(), drawing from C; OTP.create({email, otp})
ResendCreate(p, C) ==
    /\ pc[p] = "rs_create"
    /\ \E o \in C:
          otps' = OtpCreate(req[p].email, o, club[p].id, req[p].op)
    /\ consumed' = IF consumed # <<>> /\ consumed[1] = req[p].email
                 THEN <<>> ELSE consumed
    /\ Goto(p, "rs_mail", club[p])
    /\ UNCHANGED <<clubs, nextId, tokens, verifiedBy, sameRecord>>

\* sendOTPEmail(email, otp)
ResendMail(p) ==
    /\ pc[p] = "rs_mail"
    /\ \E result \in sendOTPEmail:
          /\ mail' = [mail EXCEPT ![p] = result]
          /\ Answer(p, MailAnswer(result, "Resent"))
    /\ UNCHANGED <<clubs, otps, nextId, tokens, verifiedBy, consumed,
                   sameRecord>>

----------------------------------------------------------------------------
\* POST /login

LoginBegin(p, e, w) ==
    Begin(p, [NoReq EXCEPT !.op = "login", !.email = e, !.password = w],
          "lg_find")

\* LoginGate, had login left out the check of club.verified.
LoginGateNoVerifiedCheck(found) ==
    IF found = {} THEN {"InvalidCredentials"} ELSE {""}

\* The answer of login once the club is loaded, before the password check:
\* "" when the handler goes on to comparePassword.
LoginGate(found) ==
    IF found = {} THEN {"InvalidCredentials"}
    ELSE {IF c.verified THEN "" ELSE "NotVerified" : c \in found}

\* Club.findOne({email}); the checks on club and club.verified
LoginFind(p) ==
    /\ pc[p] = "lg_find"
    /\ LET found == ClubsByEmail(req[p].email)
       IN  \E g \in LoginGate(found):
              IF g # ""
              THEN Respond(p, g)
              ELSE \E c \in found: Goto(p, "lg_cmp", c)
    /\ UNCHANGED <<clubs, otps, nextId, tokens, verifiedBy, consumed,
                   sameRecord>>

\* club.comparePassword(password); jwt.sign({clubId}); res.json(..)
LoginCompare(p) ==
    /\ pc[p] = "lg_cmp"
    /\ IF comparePassword(req[p].password, club[p].password)
       THEN /\ tokens' = tokens \cup {club[p].id}
            /\ Respond(p, "LoggedIn")
       ELSE /\ Respond(p, "InvalidCredentials")
            /\ UNCHANGED tokens
    /\ UNCHANGED <<clubs, otps, nextId, verifiedBy, consumed, sameRecord>>

----------------------------------------------------------------------------
\* POST /forgot-password

ForgotBegin(p, e) ==
    /\ OtpRoom(e)
    /\ Begin(p, [NoReq EXCEPT !.op = "forgotPassword", !.email = e],
             "fp_find")

\* Club.findOne({email, verified: true})
ForgotFind(p) ==
    /\ pc[p] = "fp_find"
    /\ LET found == ClubsByEmailVerified(req[p].email, TRUE)
       IN  IF found = {}
           THEN Respond(p, "NoVerified")
           ELSE \E c \in found: Goto(p, "fp_delMany", c)
    /\ UNCHANGED <<clubs, otps, nextId, tokens, verifiedBy, consumed,
                   sameRecord>>

\* OTP.deleteMany({email})
ForgotDeleteMany(p) ==
    /\ pc[p] = "fp_delMany"
    /\ otps' = OtpDeleteMany(req[p].email)
    /\ Goto(p, "fp_create", club[p])
    /\ UNCHANGED <<clubs, nextId, tokens, verifiedBy, consumed, sameRecord>>

\* generateOTP(), drawing from C; OTP.create({email, otp})
ForgotCreate(p, C) ==
    /\ pc[p] = "fp_create"
    /\ \E o \in C:
          otps' = OtpCreate(req[p].email, o, club[p].id, req[p].op)
    /\ consumed' = IF consumed # <<>> /\ consumed[1] = req[p].email
                 THEN <<>> ELSE consumed
    /\ Goto(p, "fp_mail", club[p])
    /\ UNCHANGED <<clubs, nextId, tokens, verifiedBy, sameRecord>>

\* sendOTPEmail(email, otp)
ForgotMail(p) ==
    /\ pc[p] = "fp_mail"
    /\ \E result \in sendOTPEmail:
          /\ mail' = [mail EXCEPT ![p] = result]
          /\ Answer(p, MailAnswer(result, "ResetSent"))
    /\ UNCHANGED <<clubs, otps, nextId, tokens, verifiedBy, consumed,
                   sameRecord>>

----------------------------------------------------------------------------
\* POST /reset-password

ResetBegin(p, e, o, w) ==
    Begin(p, [NoReq EXCEPT !.op = "resetPassword", !.email = e, !.otp = o,
                           !.password = w], "rp_findOtp")

\* OTP.findOne({email, otp})
ResetFindOtp(p) ==
    /\ pc[p] = "rp_findOtp"
    /\ IF OtpMatches(req[p].email, req[p].otp) = {}
       THEN Respond(p, "InvalidOrExpired") /\ UNCHANGED sameRecord
       ELSE Goto(p, "rp_findClub", NoClub) /\ sameRecord' = SharedLookup(p)
    /\ UNCHANGED <<clubs, otps, nextId, tokens, verifiedBy, consumed>>

\* Club.findOne({email, verified: true})
ResetFindClub(p) ==
    /\ pc[p] = "rp_findClub"
    /\ LET found == ClubsByEmailVerified(req[p].email, TRUE)
       IN  IF found = {}
           THEN ClubNotFound(p)
           ELSE /\ \E c \in found: Goto(p, "rp_save", c)
                /\ UNCHANGED otps
    /\ UNCHANGED <<clubs, nextId, tokens, verifiedBy, consumed, sameRecord>>

\* club.password = newPassword; club.save()  (hashed by the pre-save hook)
ResetSave(p) ==
    /\ pc[p] = "rp_save"
    /\ IF ClubsById(club[p].id) = {}
       THEN Respond(p, "ServerError") /\ UNCHANGED clubs
       ELSE LET hashed == Hash(req[p].password)
            IN  /\ clubs' = SaveById(club[p].id, "password", hashed)
                /\ Goto(p, "rp_delOtp",
                        [club[p] EXCEPT !.password = hashed])
    /\ UNCHANGED <<otps, nextId, tokens, verifiedBy, consumed, sameRecord>>

\* OTP.deleteOne({email, otp}); res.json(..)
ResetDeleteOtp(p) ==
    /\ pc[p] = "rp_delOtp"
    /\ otps' \in OtpDeleteOne(req[p].email, req[p].otp)
    /\ consumed' = <<req[p].email, req[p].otp, "reset">>
    /\ Respond(p, "PasswordReset")
    /\ UNCHANGED <<clubs, nextId, tokens, verifiedBy, sameRecord>>

----------------------------------------------------------------------------
\* DELETE /delete-account, behind authMiddleware

\* authMiddleware sets req.clubId from a session token that was signed.
DeleteBegin(p, i) ==
    /\ i \in tokens
    /\ Begin(p, [NoReq EXCEPT !.op = "deleteAccount", !.clubId = i],
             "da_find")

\* Club.findById(req.clubId)
DeleteFind(p) ==
    /\ pc[p] = "da_find"
    /\ LET found == ClubsById(req[p].clubId)
       IN  IF found = {}
           THEN Respond(p, "ClubNotFound")
           ELSE \E c \in found: Goto(p, "da_delete", c)
    /\ UNCHANGED <<clubs, otps, nextId, tokens, verifiedBy, consumed,
                   sameRecord>>

\* Club.findByIdAndDelete(req.clubId)
DeleteAccount(p) ==
    /\ pc[p] = "da_delete"
    /\ clubs' = WithoutId(req[p].clubId)
    /\ Respond(p, "Deleted")
    /\ UNCHANGED <<otps, nextId, tokens, verifiedBy, consumed, sameRecord>>

----------------------------------------------------------------------------
\* The clock and the expiry of OTP documents

\* Time passes.
Tick ==
    /\ Aged # otps
    /\ otps' = Aged
    /\ UNCHANGED <<clubs, nextId, tokens, pc, req, existing, club, resp,
                   mail, verifiedBy, consumed, sameRecord>>

\* The store removes a document that is past its lifetime.
Reap ==
    /\ \E r \in BagToSet(otps):
          /\ Expired(r)
          /\ otps' = otps (-) SetToBag({r})
    /\ UNCHANGED <<clubs, nextId, tokens, pc, req, existing, club, resp,
                   mail, verifiedBy, consumed, sameRecord>>

----------------------------------------------------------------------------
\* The routes that validate their body.
Validated ==
    {"signup", "verifyOtp", "resendOtp", "login", "forgotPassword",
     "resetPassword"}

\* The requests a worker may take, with their fields drawn from E, N, W, C
\* (signup passwords from S).
Requests(p, E, N, S, W, C) ==
    \/ \E op \in Validated: Invalid(p, op)
    \/ \E e \in E, n \in N, w \in S: SignupBegin(p, e, n, w)
    \/ \E e \in E, o \in C: VerifyBegin(p, e, o)
    \/ \E e \in E: ResendBegin(p, e)
    \/ \E e \in E, w \in W: LoginBegin(p, e, w)
    \/ \E e \in E: ForgotBegin(p, e)
    \/ \E e \in E, o \in C, w \in W: ResetBegin(p, e, o, w)
    \/ \E i \in 1..MaxIds: DeleteBegin(p, i)

\* The continuations of the handlers, generateOTP drawing from C.
Steps(p, C) ==
    \/ SignupFind(p) \/ SignupDelete(p) \/ SignupSave(p) \/ SignupOtp(p, C)
    \/ SignupMail(p)
    \/ VerifyFindOtp(p) \/ VerifyFindClub(p) \/ VerifySave(p)
    \/ VerifyDeleteOtp(p)
    \/ ResendFind(p) \/ ResendDeleteMany(p) \/ ResendCreate(p, C)
    \/ ResendMail(p)
    \/ LoginFind(p) \/ LoginCompare(p)
    \/ ForgotFind(p) \/ ForgotDeleteMany(p) \/ ForgotCreate(p, C)
    \/ ForgotMail(p)
    \/ ResetFindOtp(p) \/ ResetFindClub(p) \/ ResetSave(p)
    \/ ResetDeleteOtp(p)
    \/ DeleteFind(p) \/ DeleteAccount(p)
    \/ Done(p)

\* One request at a time, while no OTP document ages.
Next ==
    \/ Requests(1, Emails, Names, SignupPasswords, Passwords, Codes)
    \/ Steps(1, Codes)

Spec == Init /\ [][Next]_vars

\* One request at a time, with the clock running and documents expiring.
NextClock ==
    \/ Next
    \/ Tick
    \/ Reap

SpecClock == Init /\ [][NextClock]_vars

\* Two workers, interleaved at their awaits, while no OTP document ages.
NextConc ==
    \/ \E p \in Procs:
          \/ Requests(p, ConcEmails, ConcNames, ConcPasswords, ConcPasswords,
                      ConcCodes)
          \/ Steps(p, ConcCodes)

SpecConc == Init /\ [][NextConc]_vars

\* Two workers, interleaved at their awaits, with one code value for every
\* OTP.
NextOneCode ==
    \E p \in Procs:
       \/ Requests(p, ConcEmails, ConcNames, ConcPasswords, ConcPasswords,
                   OneCode)
       \/ Steps(p, OneCode)

SpecOneCode == Init /\ [][NextOneCode]_vars

----------------------------------------------------------------------------
\* The claims

\* Worker p takes a step of its handler.
Moves(p) == pc'[p] # pc[p]

\* C1: a club is created unverified, and a club is verified only when
\* verify-otp has answered 200 for its email since the club was created (or
\* is about to: its save is done and only the answer is outstanding).
C1_VerifiedOnlyByVerifyOtp ==
    /\ pc[1] \in {"su_otp", "su_mail"} =>
          /\ club[1] \in clubs
          /\ ~club[1].verified
    /\ \A c \in clubs:
          c.verified =>
             \/ <<c.id, c.email>> \in verifiedBy
             \/ /\ pc[1] = "vo_delOtp"
                /\ club[1].id = c.id
                /\ req[1].email = c.email

\* C1 witness: verify-otp has answered 200 and the club is verified.
C1_Witness ==
    /\ resp[1] = "Verified"
    /\ \E c \in clubs: c.verified /\ <<c.id, c.email>> \in verifiedBy

\* C2: once verify-otp or reset-password has succeeded with (email, otp),
\* a later verify-otp or reset-password with the same pair answers 400
\* Invalid or expired, as long as no OTP was issued for the email since.
C2_SingleUse ==
    [][(/\ pc[1] \in {"vo_findOtp", "rp_findOtp"}
        /\ Moves(1)
        /\ consumed # <<>>
        /\ consumed[1] = req[1].email
        /\ consumed[2] = req[1].otp)
       => resp'[1] = "InvalidOrExpired"]_vars

\* C3: between requests the OTP collection holds at most one document per
\* email.
C3_AtMostOneCode ==
    pc[1] \in {"idle", "done"} => \A e \in Emails: OtpCount(e) <= 1

\* C4: verify-otp and reset-password answer 400 Invalid or expired, and
\* change no club, when every document matching the presented code is past
\* its 10 minutes, even though it is still in the collection.
C4_ExpiredRejected ==
    [][(/\ pc[1] \in {"vo_findOtp", "rp_findOtp"}
        /\ Moves(1)
        /\ OtpMatches(req[1].email, req[1].otp) # {}
        /\ \A r \in OtpMatches(req[1].email, req[1].otp): Expired(r))
       => (resp'[1] = "InvalidOrExpired" /\ clubs' = clubs)]_vars

\* C5: while the club with the email is unverified, login answers 403
\* Please verify your email first and signs no token, whatever the password.
C5_LoginNeedsVerified ==
    [][(/\ pc[1] \in {"lg_find", "lg_cmp"}
        /\ Moves(1)
        /\ \E c \in ClubsByEmail(req[1].email): ~c.verified)
       => (resp'[1] = "NotVerified" /\ tokens' = tokens)]_vars

\* C5 witness: login has answered 403 for a club that is unverified, and no
\* token names that club.
C5_Witness ==
    /\ req[1].op = "login"
    /\ resp[1] = "NotVerified"
    /\ \E c \in ClubsByEmail(req[1].email): ~c.verified /\ c.id \notin tokens

\* C6: a signup whose email belongs to a verified club answers 400 Club with
\* this email or name already exists, whatever the name.
C6_DuplicateActive ==
    [][(/\ pc[1] = "su_find"
        /\ Moves(1)
        /\ \E c \in ClubsByEmail(req[1].email): c.verified)
       => resp'[1] = "DuplicateActive"]_vars

\* The Club collection as it was when the signup in flight began: the
\* documents in it now and the one the signup has deleted.
ClubsAtSignup ==
    clubs \cup (IF existing[1].id # 0 THEN {existing[1]} ELSE {})

\* The signup in flight began with no verified club holding its email or
\* name and with an unverified club holding its email.
Reregisters ==
    /\ pc[1] \in {"su_find", "su_delete", "su_save"}
    /\ \A c \in ClubsAtSignup:
          (c.email = req[1].email \/ c.name = req[1].name) => ~c.verified
    /\ \E c \in ClubsAtSignup: c.email = req[1].email /\ ~c.verified

\* C7: such a signup is answered 201 when the email is dispatched, and
\* then exactly one club holds the email: a new, unverified document with
\* the new password, the old _id resolving to nothing.
C7_Reregistration ==
    [][/\ (Reregisters /\ Moves(1)) => pc'[1] # "done"
       /\ (/\ pc[1] = "su_mail"
           /\ Moves(1)
           /\ existing[1].email = req[1].email
           /\ resp'[1] # "DeliveryError")
          => /\ resp'[1] = "Created"
             /\ ClubsByEmail(req[1].email) = {club[1]}
             /\ club[1].id # existing[1].id
             /\ ~club[1].verified
             /\ comparePassword(req[1].password, club[1].password)
             /\ ClubsById(existing[1].id) = {}]_vars

\* C8: no two clubs share an email and no two clubs share a name, under
\* any interleaving of the requests.
C8_Unique ==
    \A c, d \in clubs:
       c # d => (c.email # d.email /\ c.name # d.name /\ c.id # d.id)

\* C8 witness: of two signups in flight at once one has inserted its club
\* and the insert of the other has been refused.
C8_Witness ==
    \E p \in Procs, q \in Procs:
       /\ p # q
       /\ req[p].op = "signup" /\ resp[p] = "ServerError"
       /\ req[q].op = "signup" /\ pc[q] \in {"su_otp", "su_mail"}
       /\ club[q] \in clubs
       /\ req[p].email = club[q].email

\* C9: of two requests that looked up the same single OTP document at
\* once, at most one succeeds.
C9_ExactlyOnce ==
    ~(/\ sameRecord
      /\ \A p \in Procs:
            pc[p] = "done" /\ resp[p] \in {"Verified", "PasswordReset"})

\* C10: once two resend-otp or forgot-password requests for one email have
\* both finished, no two OTP documents for that email are in the collection.
C10_LastWriteWins ==
    \A e \in Emails:
       (\A p \in Procs:
           /\ pc[p] = "done"
           /\ req[p].op \in {"resendOtp", "forgotPassword"}
           /\ req[p].email = e
           /\ resp[p] \in {"Resent", "ResetSent"})
       => OtpCount(e) <= 1

\* The signup of worker p found no club and is about to save, while the
\* signup of another worker for the same email, which found no club either,
\* has inserted its club.
LostRace(p) ==
    /\ pc[p] = "su_save"
    /\ existing[p] = NoClub
    /\ \E q \in Procs \ {p}:
          /\ req[q].op = "signup"
          /\ req[q].email = req[p].email
          /\ existing[q] = NoClub
          /\ pc[q] \in {"su_otp", "su_mail"}
          /\ club[q] \in clubs

\* C11: of two signups for one email that both saw no club, the one that
\* saves second answers 400 Club with this email or name already exists,
\* writes no OTP document and leaves the club of the first as it is.
C11_LoserDuplicateActive ==
    [][\A p \in Procs:
          (LostRace(p) /\ Moves(p))
          => /\ resp'[p] = "DuplicateActive"
             /\ otps' = otps
             /\ clubs' = clubs]_vars

\* C12: when the dispatch of the email fails, signup, resend-otp and
\* forgot-password answer 500 and undo nothing: the unverified club of the
\* signup and the OTP documents stay as they were written, and the
\* documents resend-otp and forgot-password deleted stay deleted.
C12_DispatchFailureKeepsWrites ==
    [][(Moves(1) /\ mail'[1] = "Failed to send email")
       => /\ Status(resp'[1]) = 500
          /\ clubs' = clubs
          /\ otps' = otps
          /\ req[1].op = "signup"
                => (club[1] \in clubs' /\ ~club[1].verified)
          /\ req[1].op \in {"resendOtp", "forgotPassword"}
                => OtpCount(req[1].email) <= 1]_vars

\* C12 witness: resend-otp has answered 500 on a failed dispatch, and the
\* one OTP document it wrote and the unverified club are in the collections.
C12_Witness ==
    /\ req[1].op = "resendOtp"
    /\ mail[1] = "Failed to send email"
    /\ resp[1] = "DeliveryError"
    /\ OtpCount(req[1].email) = 1
    /\ ClubsByEmailVerified(req[1].email, FALSE) # {}

\* The club login would load for email e from the collection cs, when login
\* with password w succeeds on it.
LoginSucceeds(cs, e, w) ==
    \E c \in cs:
       /\ c.email = e
       /\ c.verified
       /\ comparePassword(w, c.password)

\* C13: reset-password with a code that is in the collection answers 404
\* and changes no club when no verified club holds the email; otherwise it
\* sets the password of that club only (same _id, still verified), removes
\* one document of the code and answers 200, after which login succeeds
\* with the new password and fails with every other one.
C13_ResetPassword ==
    [][/\ (pc[1] = "rp_findClub" /\ Moves(1))
          => IF \E c \in clubs: c.email = req[1].email /\ c.verified
             THEN pc'[1] = "rp_save"
             ELSE /\ Status(resp'[1]) = 404
                  /\ clubs' = clubs
                  /\ otps' = otps
       /\ (pc[1] = "rp_save" /\ Moves(1))
          => /\ pc'[1] = "rp_delOtp"
             /\ club[1] \in clubs
             /\ club[1].verified
             /\ clubs' = (clubs \ {club[1]})
                            \cup {[club[1] EXCEPT
                                     !.password = Hash(req[1].password)]}
       /\ (pc[1] = "rp_delOtp" /\ Moves(1))
          => /\ Status(resp'[1]) = 200
             /\ clubs' = clubs
             /\ BagCardinality(otps') =
                   BagCardinality(otps)
                     - (IF OtpMatches(req[1].email, req[1].otp) = {}
                        THEN 0 ELSE 1)
             /\ \A r \in BagToSet(otps):
                   (r.email # req[1].email \/ r.otp # req[1].otp)
                      => CopiesIn(r, otps') = CopiesIn(r, otps)
             /\ LoginSucceeds(clubs', req[1].email, req[1].password)
             /\ \A w \in Passwords \ {req[1].password}:
                   ~LoginSucceeds(clubs', req[1].email, w)]_vars

\* C13 witness: reset-password has answered 200 and the verified club holds
\* the hash of a password other than the one it signed up with.
C13_Witness ==
    /\ req[1].op = "resetPassword"
    /\ resp[1] = "PasswordReset"
    /\ LoginSucceeds(clubs, req[1].email, "secret2")
    /\ ~LoginSucceeds(clubs, req[1].email, "secret1")

\* C14: verify-otp for a club that is verified already, with a code that is
\* in the collection, leaves the club as it is, signs a token and answers
\* 200; the same code presented again is then refused with 400 at the OTP
\* lookup.
C14_VerifyAgain ==
    [][\A p \in Procs:
          /\ (/\ pc[p] = "vo_save"
              /\ Moves(p)
              /\ club[p].verified
              /\ club[p] \in clubs)
             => (pc'[p] = "vo_delOtp" /\ clubs' = clubs)
          /\ (pc[p] = "vo_delOtp" /\ Moves(p))
             => /\ Status(resp'[p]) = 200
                /\ club[p].id \in tokens'
                /\ clubs' = clubs
          /\ (/\ pc[p] = "vo_findOtp"
              /\ Moves(p)
              /\ consumed = <<req[p].email, req[p].otp, "reverified">>)
             => resp'[p] = "InvalidOrExpired"]_vars

\* A document in the collection carries code o as issued for club c.
IssuedFor(c, o) ==
    \E r \in OtpMatches(c.email, o): r.issuedFor = c.id

\* C15: once signup has created the club of an email, verify-otp with a
\* code that was not issued for that club answers 400 and changes nothing;
\* verify-otp with the issued code verifies the club, signs a token and
\* answers 200; login with the password of the club then signs a token and
\* answers 200; and verify-otp with the same code again answers 400.
C15_HappyPath ==
    [][/\ (/\ pc[1] = "vo_findOtp"
           /\ Moves(1)
           /\ \E c \in ClubsByEmail(req[1].email):
                 ~c.verified /\ ~IssuedFor(c, req[1].otp))
          => /\ resp'[1] = "InvalidOrExpired"
             /\ clubs' = clubs
             /\ otps' = otps
       /\ (/\ pc[1] = "vo_findOtp"
           /\ Moves(1)
           /\ \E c \in ClubsByEmail(req[1].email): IssuedFor(c, req[1].otp))
          => pc'[1] = "vo_findClub"
       /\ (pc[1] = "vo_delOtp" /\ Moves(1))
          => /\ Status(resp'[1]) = 200
             /\ club[1].id \in tokens'
             /\ \E c \in clubs': c.id = club[1].id /\ c.verified
       /\ (/\ pc[1] \in {"lg_find", "lg_cmp"}
           /\ Moves(1)
           /\ LoginSucceeds(clubs, req[1].email, req[1].password))
          => \/ pc'[1] = "lg_cmp"
             \/ /\ Status(resp'[1]) = 200
                /\ \E c \in ClubsByEmail(req[1].email): c.id \in tokens'
       /\ (/\ pc[1] = "vo_findOtp"
           /\ Moves(1)
           /\ consumed = <<req[1].email, req[1].otp, "verified">>)
          => resp'[1] = "InvalidOrExpired"]_vars

\* The club with _id i was deleted by delete-account: a token was signed
\* for it, which takes a verified club, and signup deletes unverified clubs
\* only.
DeletedByOwner(i) == i \in tokens /\ ClubsById(i) = {}

\* C16: once delete-account has deleted a club, no OTP document of its
\* email is in the collection, and verify-otp and reset-password never
\* succeed on a code that was issued only for clubs deleted that way.
C16_DeletionInvalidatesCodes ==
    [][/\ (pc[1] = "da_delete" /\ Moves(1) /\ resp'[1] = "Deleted")
          => \A r \in BagToSet(otps'): r.email # club[1].email
       /\ (/\ pc[1] \in {"vo_delOtp", "rp_delOtp"}
           /\ Moves(1)
           /\ OtpMatches(req[1].email, req[1].otp) # {})
          => \E r \in OtpMatches(req[1].email, req[1].otp):
                ~DeletedByOwner(r.issuedFor)]_vars

\* C17: login with a password that is not the password of the club holding
\* the email answers what it answers when no club holds the email (401
\* Invalid email or password), whether that club is verified or not.
C17_LoginHidesExistence ==
    [][(/\ pc[1] \in {"lg_find", "lg_cmp"}
        /\ Moves(1)
        /\ ClubsByEmail(req[1].email) # {}
        /\ \A c \in ClubsByEmail(req[1].email):
              ~comparePassword(req[1].password, c.password))
       => \/ pc'[1] = "lg_cmp"
          \/ resp'[1] \in LoginGate({})]_vars

\* C18: resend-otp goes on to issue a code exactly when an unverified club
\* holds the email, forgot-password exactly when a verified club holds it,
\* so never both in one state; otherwise each answers 404 and changes
\* neither collection.
C18_ResendXorForgot ==
    [][/\ (pc[1] = "rs_find" /\ Moves(1))
          => IF \E c \in clubs: c.email = req[1].email /\ ~c.verified
             THEN /\ pc'[1] = "rs_delMany"
                  /\ \A c \in clubs: c.email = req[1].email => ~c.verified
             ELSE /\ Status(resp'[1]) = 404
                  /\ clubs' = clubs
                  /\ otps' = otps
       /\ (pc[1] = "fp_find" /\ Moves(1))
          => IF \E c \in clubs: c.email = req[1].email /\ c.verified
             THEN /\ pc'[1] = "fp_delMany"
                  /\ \A c \in clubs: c.email = req[1].email => c.verified
             ELSE /\ Status(resp'[1]) = 404
                  /\ clubs' = clubs
                  /\ otps' = otps
       /\ (Moves(1) /\ resp'[1] = "Resent")
          => \E c \in clubs: c.email = req[1].email /\ ~c.verified
       /\ (Moves(1) /\ resp'[1] = "ResetSent")
          => \E c \in clubs: c.email = req[1].email /\ c.verified]_vars

\* C18 witness: forgot-password has answered 404 for an email that an
\* unverified club holds, and no OTP document was written for it.
C18_Witness ==
    /\ req[1].op = "forgotPassword"
    /\ resp[1] = "NoVerified"
    /\ \E c \in clubs: c.email = req[1].email /\ ~c.verified
    /\ mail[1] = "none"

\* C19: a verified club stays in the collection, verified, through every
\* step but the delete of a delete-account request that carries the token
\* of that club.
C19_VerifiedStays ==
    [][\A c \in clubs:
          c.verified
          => \/ \E d \in clubs': d.id = c.id /\ d.verified
             \/ \E p \in Procs:
                   /\ pc[p] = "da_delete"
                   /\ Moves(p)
                   /\ req[p].clubId = c.id
                   /\ c.id \in tokens]_vars

\* C20: the club that verify-otp marks verified is the club the presented
\* code was issued for.
C20_CodeVerifiesItsClub ==
    [][(/\ pc[1] = "vo_save"
        /\ Moves(1)
        /\ pc'[1] = "vo_delOtp"
        /\ OtpMatches(req[1].email, req[1].otp) # {})
       => IssuedFor(club[1], req[1].otp)]_vars

\* C21: reset-password changes the password only on a code that
\* forgot-password issued, never on a code of signup or resend-otp.
C21_ResetNeedsForgotCode ==
    [][(/\ pc[1] = "rp_save"
        /\ Moves(1)
        /\ pc'[1] = "rp_delOtp")
       => \E r \in OtpMatches(req[1].email, req[1].otp):
             r.issuedBy = "forgotPassword"]_vars

\* C22: a signup that ends with an answer other than 201, or 500 on a failed
\* dispatch, leaves the Club collection as it was when the request began.
C22_RejectedSignupKeepsClubs ==
    [][(/\ Moves(1)
        /\ pc'[1] = "done"
        /\ req'[1].op = "signup"
        /\ resp'[1] \notin {"Created", "DeliveryError"})
       => clubs' = ClubsAtSignup]_vars

\* C23: a verifyOtp or resetPassword call answered 400 or 404 changes no
\* club and no OTP document: its lookups write nothing, the steps that write
\* never end in 400 or 404, and the code presented on a 404 is still stored.
C23_RejectedLeavesStores ==
    [][(/\ Moves(1)
        /\ req'[1].op \in {"verifyOtp", "resetPassword"})
       => /\ (\/ pc[1] \in {"idle", "vo_findOtp", "vo_findClub",
                              "rp_findOtp", "rp_findClub"}
              \/ Status(resp'[1]) \in {400, 404})
             => clubs' = clubs /\ otps' = otps
          /\ Status(resp'[1]) \in {400, 404}
             => pc[1] \in {"idle", "vo_findOtp", "vo_findClub",
                           "rp_findOtp", "rp_findClub"}
          /\ resp'[1] = "ClubNotFound"
             => OtpMatches(req[1].email, req[1].otp) \cap BagToSet(otps') # {}
      ]_vars

\* resetPassword was answered 404 for an unverified club whose code is
\* still stored.
C23_Witness ==
    /\ pc[1] = "done"
    /\ req[1].op = "resetPassword"
    /\ resp[1] = "ClubNotFound"
    /\ ClubsByEmailVerified(req[1].email, FALSE) # {}
    /\ OtpCount(req[1].email) > 0

\* C24: whenever verifyOtp or login answers with a session token, the club
\* the token names is stored with verified = true at that moment.
C24_TokenNamesVerifiedClub ==
    [][\A p \in Procs:
          (/\ Moves(p)
           /\ pc'[p] = "done"
           /\ resp'[p] \in {"Verified", "LoggedIn"})
          => \E c \in clubs': c.id = club[p].id /\ c.verified]_vars

====
